---- MODULE Spec2Model ----
(***************************************************************************)
(* Model of homework.py: a bot that polls the homework-review API and      *)
(* forwards status changes and failures to one Telegram chat.              *)
(*                                                                         *)
(* Python values are represented as follows.                               *)
(*   - str: a TLA+ string.  The message templates are written in ASCII;    *)
(*     str.format is string concatenation around the template text.        *)
(*   - None / True / False returned by a function: "None", "True",         *)
(*     "False" (PyNone, PyTrue, PyFalse).                                  *)
(*   - an optional value (a variable holding None or a str, a key that may *)
(*     be absent): << >> or << v >>.                                       *)
(*   - a dict: a record with a field "keys" (the keys present) and one     *)
(*     field per key; the field of an absent key is a placeholder.         *)
(*   - a decoded JSON value that is not a dict: the same record with       *)
(*     another "type"; "keys" then holds what `in` finds in it.            *)
(*   - the outcome of a call: [raised, exc, text, value]; exc is the class *)
(*     of the exception raised and text is str(exception).                 *)
(*   - the dict the global HOMEWORK_VERDICTS is bound to: the variable     *)
(*     verdicts, which starts as the literal of the source.                *)
(***************************************************************************)
EXTENDS Integers, Sequences, FiniteSets, TLC

VARIABLES env, pc, timestamp, last_error_message, critical, iter, verdicts

vars == <<env, pc, timestamp, last_error_message, critical, iter, verdicts>>

(* ------------------------------ bounds --------------------------------- *)

\* Largest Unix time the clock and the API's current_date take.
MaxDate == 2
\* Longest homework list the API returns.
MaxHomeworks == 2

(* ------------------------- Python primitives --------------------------- *)

PyNone == "None"
PyTrue == "True"
PyFalse == "False"

\* bool(x) of a value a function returned.
PyTruthy(v) == v = PyTrue

\* A call that returned v.
Return(v) == [raised |-> FALSE, exc |-> "", text |-> "", value |-> v]

\* A call that raised cls(text_), where text_ is str() of the exception.
Raise(cls, text_) == [raised |-> TRUE, exc |-> cls, text |-> text_, value |-> PyNone]

RECURSIVE JoinRepr(_)
\* The elements of a list of str as repr prints them: 'a', 'b'.
JoinRepr(s) ==
    IF Len(s) = 0 THEN ""
    ELSE IF Len(s) = 1 THEN "'" \o s[1] \o "'"
    ELSE "'" \o s[1] \o "', " \o JoinRepr(Tail(s))

\* repr of a list of str.
ListRepr(s) == "[" \o JoinRepr(s) \o "]"

\* str(type(x)) for the JSON types of the model.
TypeStr(t) == "<class '" \o t \o "'>"

\* HTTPRequestError of the module exceptions, an Exception subclass.
HTTPRequestError == "HTTPRequestError"

\* Mutation: the handler of main is `except HTTPRequestError`.
ExceptionClasses_http_only == {HTTPRequestError}

\* The classes `except Exception` catches (all that the calls here raise).
ExceptionClasses ==
    {"RuntimeError", HTTPRequestError, "JSONDecodeError", "TypeError",
     "KeyError", "ValueError", "IndexError", "ApiTelegramException"}

(* ----------------------------- constants ------------------------------- *)

RETRY_PERIOD == 600
HTTP_OK == 200
ENDPOINT == "https://practicum.yandex.ru/api/user_api/homework_statuses/"

MISSING_ENV_VARS(missing_tokens) ==
    "Missing required environment variables:" \o missing_tokens
MESSAGE_SENT_SUCCESS(message) == "Message sent: " \o message
MESSAGE_SEND_ERROR(error, message) ==
    "Failure: " \o error \o ". While sending message:" \o message
REQUEST_ERROR(req_error, url, headers, params) ==
    "Request error " \o req_error \o " URL: " \o url \o ",Headers: "
        \o headers \o ", Params: " \o params
RESPONSE_STATUS_ERROR(status_code, url, headers, params) ==
    "Bad response status: " \o ToString(status_code) \o ". URL: " \o url
        \o ",Headers: " \o headers \o ", Params: " \o params
API_RESPONSE_ERROR(error_message, error_key) ==
    "Error in API response: " \o error_message \o ", key:" \o error_key
INVALID_API_RESPONSE_TYPE(response_type) ==
    "API response is not a dict, got type:" \o response_type
MISSING_HOMEWORKS_KEY == "No key \"homeworks\" in API response"
INVALID_HOMEWORKS_TYPE(homeworks_type) ==
    "homeworks in API response is not alist, got type: " \o homeworks_type
MISSING_HOMEWORK_KEYS(missing_keys) ==
    "Missing expected keys in API response:" \o missing_keys
UNKNOWN_HOMEWORK_STATUS(status) == "Unknown homework status: " \o status
STATUS_CHANGED_MESSAGE(homework_name, verdict) ==
    "Homework status changed \"" \o homework_name \o "\"." \o verdict
NO_STATUS_CHANGE == "No status change: homework list is empty"
PROGRAM_FAILURE(error) == "Program failure: " \o error

HOMEWORK_VERDICTS ==
    [approved |-> "Reviewed: the reviewer liked everything. Hooray!",
     reviewing |-> "Taken for review by the reviewer.",
     rejected |-> "Reviewed: the reviewer has remarks."]

TOKEN_NAMES == {"PRACTICUM_TOKEN", "TELEGRAM_TOKEN", "TELEGRAM_CHAT_ID"}

\* HEADERS, built at import from the PRACTICUM_TOKEN of the environment e.
HEADERS(e) == "{'Authorization': 'OAuth " \o e["PRACTICUM_TOKEN"] \o "'}"

(* --------------------------- the environment --------------------------- *)

\* What os.getenv gives for a secret: None (unset), '' or a value.
TokenValues == {PyNone, "", "tok"}

Environments == [TOKEN_NAMES -> TokenValues]

\* `not globals().get(name)`: the secret is unset or empty.
Falsy(v) == v \in {PyNone, ""}

(* ----------------------------- check_tokens ---------------------------- *)

\* Mutation: a secret counts as missing only when it is unset (None).
missing_tokens_unset_only(e) == {name \in TOKEN_NAMES : e[name] = PyNone}

\* missing_tokens of check_tokens, as a set (TOKEN_NAMES is a set, so the
\* order of the list is not fixed).
missing_tokens(e) == {name \in TOKEN_NAMES : Falsy(e[name])}

\* Mutation: the report is made but `return False` is lost.
check_tokens_no_return(e) ==
    [value |-> PyTrue,
     critical |-> IF missing_tokens(e) # {} THEN <<missing_tokens(e)>> ELSE << >>]

\* check_tokens(): the value returned and what logger.critical was given.
check_tokens(e) ==
    IF missing_tokens(e) # {}
    THEN [value |-> PyFalse, critical |-> <<missing_tokens(e)>>]
    ELSE [value |-> PyTrue, critical |-> << >>]

(* ----------------------------- send_message ---------------------------- *)

\* What bot.send_message raises when the chat refuses the message.
BotError == "ApiTelegramException"
BotErrorText == "A request to the Telegram API was unsuccessful."

\* One call of send_message as the caller and the chat see it.
SendOutcome(call, accepted_, message, level, logtext) ==
    [raised |-> call.raised, exc |-> call.exc, text |-> call.text,
     value |-> call.value, accepted |-> accepted_, message |-> message,
     log |-> IF level = "" THEN << >> ELSE <<[level |-> level, text |-> logtext]>>]

\* Mutation: no try/except around bot.send_message.
send_message_no_catch(accepts, message) ==
    IF accepts
    THEN SendOutcome(Return(PyNone), TRUE, message, "DEBUG",
                     MESSAGE_SENT_SUCCESS(message))
    ELSE SendOutcome(Raise(BotError, BotErrorText), FALSE, message, "", "")

\* Mutation: send_message returns True when the chat accepted the message
\* and False when it raised.
send_message_returns_outcome(accepts, message) ==
    IF accepts
    THEN SendOutcome(Return(PyTrue), TRUE, message, "DEBUG",
                     MESSAGE_SENT_SUCCESS(message))
    ELSE SendOutcome(Return(PyFalse), FALSE, message, "ERROR",
                     MESSAGE_SEND_ERROR(BotErrorText, message))

\* Mutation: send_message ends with `return True` after the try statement.
send_message_returns_true(accepts, message) ==
    IF accepts
    THEN SendOutcome(Return(PyTrue), TRUE, message, "DEBUG",
                     MESSAGE_SENT_SUCCESS(message))
    ELSE SendOutcome(Return(PyTrue), FALSE, message, "ERROR",
                     MESSAGE_SEND_ERROR(BotErrorText, message))

\* send_message(bot, message); accepts says whether bot.send_message
\* returns (TRUE) or raises (FALSE).  Neither path has a return statement,
\* so the call evaluates to None.
send_message(accepts, message) ==
    IF accepts
    THEN SendOutcome(Return(PyNone), TRUE, message, "DEBUG",
                     MESSAGE_SENT_SUCCESS(message))
    ELSE SendOutcome(Return(PyNone), FALSE, message, "ERROR",
                     MESSAGE_SEND_ERROR(BotErrorText, message))

(* ---------------------------- get_api_answer --------------------------- *)

\* Mutation: the request asks for everything since the epoch.
RequestParams_epoch(ts) == [from_date |-> 0]

\* params = {'from_date': timestamp}, the query of the request.
RequestParams(ts) == [from_date |-> ts]

\* repr of params = {'from_date': timestamp}.
ParamsRepr(ts) == "{'from_date': " \o ToString(ts) \o "}"

TransportErrorText == "HTTPSConnectionPool: Max retries exceeded"
JSONDecodeErrorText == "Expecting value: line 1 column 1 (char 0)"

\* The types of decoded JSON that `in` can be applied to; the others
\* (int, float, bool, NoneType) make it raise TypeError.
Iterable(x) == x.type \in {"dict", "list", "str"}

\* str() of the TypeError of `key in x` for an x that is not iterable.
NotIterableText(type) == "argument of type '" \o type \o "' is not iterable"

\* x[key] for a str key that `key in x` has found: the value of a dict;
\* a list or a str cannot be indexed by a str.
GetItem(x, key) ==
    IF x.type = "dict" THEN Return(x[key])
    ELSE IF x.type = "list"
    THEN Raise("TypeError", "list indices must be integers or slices, not str")
    ELSE Raise("TypeError", "string indices must be integers, not 'str'")

\* Mutation: the status code of the response is not tested.
get_api_answer_no_status_test(e, ts, http) ==
    IF http.transport = "failed"
    THEN Raise("RuntimeError",
               REQUEST_ERROR(TransportErrorText, ENDPOINT, HEADERS(e), ParamsRepr(ts)))
    ELSE IF ~http.decodable
    THEN Raise("JSONDecodeError", JSONDecodeErrorText)
    ELSE LET response_json == http.body IN
         IF ~Iterable(response_json)
         THEN Raise("TypeError", NotIterableText(response_json.type))
         ELSE IF "code" \in response_json.keys \/ "error" \in response_json.keys
         THEN LET error_key == IF "error" \in response_json.keys
                               THEN "error" ELSE "code"
                  error_message == GetItem(response_json, error_key)
              IN IF error_message.raised
                 THEN error_message
                 ELSE Raise(HTTPRequestError,
                            API_RESPONSE_ERROR(error_message.value, error_key))
         ELSE Return(response_json)

\* Mutation: when the body holds both keys, `code` is the one reported.
get_api_answer_code_first(e, ts, http) ==
    IF http.transport = "failed"
    THEN Raise("RuntimeError",
               REQUEST_ERROR(TransportErrorText, ENDPOINT, HEADERS(e), ParamsRepr(ts)))
    ELSE IF http.status_code # HTTP_OK
    THEN Raise(HTTPRequestError,
               RESPONSE_STATUS_ERROR(http.status_code, ENDPOINT, HEADERS(e),
                                     ParamsRepr(ts)))
    ELSE IF ~http.decodable
    THEN Raise("JSONDecodeError", JSONDecodeErrorText)
    ELSE LET response_json == http.body IN
         IF ~Iterable(response_json)
         THEN Raise("TypeError", NotIterableText(response_json.type))
         ELSE IF "code" \in response_json.keys \/ "error" \in response_json.keys
         THEN LET error_key == IF "code" \in response_json.keys
                               THEN "code" ELSE "error"
                  error_message == GetItem(response_json, error_key)
              IN IF error_message.raised
                 THEN error_message
                 ELSE Raise(HTTPRequestError,
                            API_RESPONSE_ERROR(error_message.value, error_key))
         ELSE Return(response_json)

\* get_api_answer(timestamp) when requests.get behaves as http says:
\* http.transport is "failed" when requests.get raises RequestException,
\* http.status_code is the status of the response, http.decodable says
\* whether response.json() succeeds and http.body is what it decodes to.
get_api_answer(e, ts, http) ==
    IF http.transport = "failed"
    THEN Raise("RuntimeError",
               REQUEST_ERROR(TransportErrorText, ENDPOINT, HEADERS(e), ParamsRepr(ts)))
    ELSE IF http.status_code # HTTP_OK
    THEN Raise(HTTPRequestError,
               RESPONSE_STATUS_ERROR(http.status_code, ENDPOINT, HEADERS(e),
                                     ParamsRepr(ts)))
    ELSE IF ~http.decodable
    THEN Raise("JSONDecodeError", JSONDecodeErrorText)
    ELSE LET response_json == http.body IN
         IF ~Iterable(response_json)
         THEN Raise("TypeError", NotIterableText(response_json.type))
         ELSE IF "code" \in response_json.keys \/ "error" \in response_json.keys
         THEN LET error_key == IF "error" \in response_json.keys
                               THEN "error" ELSE "code"
                  error_message == GetItem(response_json, error_key)
              IN IF error_message.raised
                 THEN error_message
                 ELSE Raise(HTTPRequestError,
                            API_RESPONSE_ERROR(error_message.value, error_key))
         ELSE Return(response_json)

(* ---------------------------- check_response --------------------------- *)

\* str(KeyError(MISSING_HOMEWORKS_KEY)): the repr of the message, which
\* holds double quotes only and so is put in single quotes.
MissingHomeworksKeyStr == "'" \o MISSING_HOMEWORKS_KEY \o "'"

\* Mutation: the test `'homeworks' not in response` is missing, so that
\* response['homeworks'] raises KeyError('homeworks').
check_response_no_key_test(response) ==
    IF response.type # "dict"
    THEN Raise("TypeError", INVALID_API_RESPONSE_TYPE(TypeStr(response.type)))
    ELSE IF "homeworks" \notin response.keys
    THEN Raise("KeyError", "'homeworks'")
    ELSE LET homeworks == response.homeworks IN
         IF homeworks.type # "list"
         THEN Raise("TypeError", INVALID_HOMEWORKS_TYPE(TypeStr(homeworks.type)))
         ELSE Return(homeworks.items)

check_response(response) ==
    IF response.type # "dict"
    THEN Raise("TypeError", INVALID_API_RESPONSE_TYPE(TypeStr(response.type)))
    ELSE IF "homeworks" \notin response.keys
    THEN Raise("KeyError", MissingHomeworksKeyStr)
    ELSE LET homeworks == response.homeworks IN
         IF homeworks.type # "list"
         THEN Raise("TypeError", INVALID_HOMEWORKS_TYPE(TypeStr(homeworks.type)))
         ELSE Return(homeworks.items)

(* ----------------------------- parse_status ---------------------------- *)

\* Mutation: `status` is not among the required keys.
required_keys_name_only == <<"homework_name">>

required_keys == <<"homework_name", "status">>

\* str(KeyError(msg)) for a message that holds single quotes only: repr
\* puts it in double quotes.
MissingHomeworkKeysStr(missing_keys) ==
    "\"" \o MISSING_HOMEWORK_KEYS(ListRepr(missing_keys)) \o "\""

\* `x in d` and d[x] hash x: a list and a dict have no hash.
Hashable(type) == type \notin {"list", "dict"}
UnhashableText(type) == "unhashable type: '" \o type \o "'"

\* The outcome of parse_status(homework).  The function reads the table the
\* global HOMEWORK_VERDICTS is bound to, here the variable verdicts.  The
\* membership tests of lines 118 and 123 and the subscripts of lines 121
\* and 122 raise TypeError on operands they do not take; homework.status
\* and homework.homework_name hold str() of the values, which is what the
\* templates format.
parse_status(homework) ==
    IF ~Iterable(homework)
    THEN Raise("TypeError", NotIterableText(homework.type))
    ELSE
    LET missing_keys == SelectSeq(required_keys, LAMBDA key : key \notin homework.keys)
    IN IF missing_keys # << >>
       THEN Raise("KeyError", MissingHomeworkKeysStr(missing_keys))
       ELSE LET homework_name == GetItem(homework, "homework_name")
                status == GetItem(homework, "status")
            IN IF homework_name.raised THEN homework_name
               ELSE IF status.raised THEN status
               ELSE IF ~Hashable(homework.status_type)
               THEN Raise("TypeError", UnhashableText(homework.status_type))
               ELSE IF \/ homework.status_type # "str"
                       \/ status.value \notin DOMAIN verdicts
               THEN Raise("ValueError", UNKNOWN_HOMEWORK_STATUS(status.value))
               ELSE LET verdict == verdicts[status.value]
                    IN Return(STATUS_CHANGED_MESSAGE(homework_name.value, verdict))

\* Mutation: the verdict is taken out of the table,
\* HOMEWORK_VERDICTS.pop(status).
parse_status_verdicts_pop(homework) ==
    IF parse_status(homework).raised THEN verdicts
    ELSE [s \in (DOMAIN verdicts) \ {homework.status} |-> verdicts[s]]

\* The table HOMEWORK_VERDICTS is bound to once parse_status(homework) is
\* over: the function subscripts the table and assigns nothing to it.
parse_status_verdicts(homework) == verdicts

(* ------------------------- what the API can answer --------------------- *)

HomeworkKeys == {"homework_name", "status"}

\* A homework record holding the keys ks, its status a str.
Homework(ks, status) ==
    [type |-> "dict", keys |-> ks,
     homework_name |-> IF "homework_name" \in ks THEN "X" ELSE "",
     status |-> IF "status" \in ks THEN status ELSE "",
     status_type |-> "str"]

\* A record with both keys whose status is a JSON value of the given type;
\* status is str() of that value.
HomeworkOfStatus(status_type, status) ==
    [Homework(HomeworkKeys, status) EXCEPT !.status_type = status_type]

\* An element of the list that is no JSON object; ks is what `in` finds in
\* it among the required keys.
HomeworkOfType(type, ks) ==
    [Homework(ks, "approved") EXCEPT !.type = type]

\* The statuses that are no str: a list, an object, a number, null.
OddStatuses ==
    {HomeworkOfStatus("list", "['approved']"), HomeworkOfStatus("dict", "{}"),
     HomeworkOfStatus("int", "5"), HomeworkOfStatus("NoneType", "None")}

\* The elements that are no object: a number, and a list of the two key
\* names.
OddRecords == {HomeworkOfType("int", {}), HomeworkOfType("list", HomeworkKeys)}

\* The records a list may start with: every recognized status, an unknown
\* one, every way of lacking a required key, and the values of other JSON
\* types.
Records ==
    {Homework(HomeworkKeys, st) : st \in {"approved", "reviewing", "rejected", "unknown"}}
    \cup {Homework(ks, "approved") : ks \in (SUBSET HomeworkKeys) \ {HomeworkKeys}}
    \cup OddStatuses \cup OddRecords

\* The records at the later positions of a list: a well-formed one and a
\* malformed one.
LaterRecords == {Homework(HomeworkKeys, "rejected"), Homework({"status"}, "unknown")}

HomeworkLists ==
    {<< >>} \cup
    UNION {{<<first>> \o rest : first \in Records, rest \in [1..(n - 1) -> LaterRecords]}
           : n \in 1..MaxHomeworks}

Dates == 0..MaxDate

\* A decoded JSON body of the given type.  ks is what `in` finds in it: the
\* keys of a dict, the str elements of a list, the substrings of a str
\* (among the names the program looks for); nothing for the other types.
Body(type, ks, hwtype, items, date) ==
    [type |-> type, keys |-> ks,
     homeworks |-> [type |-> hwtype, items |-> items],
     current_date |-> date, error |-> "E", code |-> "C"]

\* A well-formed answer: a homework list and (unless the API leaves it out)
\* current_date.
AnswerBodies ==
    {Body("dict", {"homeworks", "current_date"}, "list", hw, d)
        : hw \in HomeworkLists, d \in Dates}
    \cup {Body("dict", {"homeworks"}, "list", hw, 0) : hw \in HomeworkLists}

\* Bodies that are not a well-formed answer.
OddBodies ==
    {Body("dict", ks \cup {"homeworks", "current_date"}, "list",
          <<Homework(HomeworkKeys, "approved")>>, 0)
        : ks \in {{"error"}, {"code"}, {"error", "code"}}}
    \cup {Body("dict", {"current_date"}, "list", << >>, 0),
          Body("dict", {"homeworks", "current_date"}, "dict", << >>, 0),
          Body("list", {}, "list", << >>, 0),
          Body("list", {"code"}, "list", << >>, 0),
          Body("str", {}, "list", << >>, 0),
          Body("int", {}, "list", << >>, 0),
          Body("NoneType", {}, "list", << >>, 0)}

Http(transport, status_code, decodable, body) ==
    [transport |-> transport, status_code |-> status_code,
     decodable |-> decodable, body |-> body]

SomeBody == Body("dict", {"homeworks", "current_date"}, "list",
                 <<Homework(HomeworkKeys, "approved")>>, 0)

\* A body that reports an error of the API.
ErrorBody == Body("dict", {"error", "code"}, "list", << >>, 0)

\* Everything requests.get and response.json() can do in one iteration.
HttpOutcomes ==
    {Http("failed", 0, FALSE, SomeBody),
     Http("ok", 500, TRUE, SomeBody),
     Http("ok", 500, FALSE, SomeBody),
     Http("ok", 500, TRUE, ErrorBody),
     Http("ok", HTTP_OK, FALSE, SomeBody)}
    \cup {Http("ok", HTTP_OK, TRUE, b) : b \in AnswerBodies \cup OddBodies}

(* --------------------------------- main -------------------------------- *)

\* Mutation: homeworks[-1], the last record of the list.
FirstItem_last(homeworks) ==
    IF Len(homeworks) = 0
    THEN Raise("IndexError", "list index out of range")
    ELSE Return(homeworks[Len(homeworks)])

\* homeworks[0]
FirstItem(homeworks) ==
    IF Len(homeworks) = 0
    THEN Raise("IndexError", "list index out of range")
    ELSE Return(homeworks[1])

\* Mutation: the branch `if homeworks:` is always taken.
HomeworksTruthy_always(homeworks) == TRUE

\* bool(homeworks) of `if homeworks:`.
HomeworksTruthy(homeworks) == Len(homeworks) > 0

\* response.get('current_date', timestamp)
GetCurrentDate(response, default) ==
    IF "current_date" \in response.keys THEN response.current_date ELSE default

\* The result of the try suite, or of the except suite, of one iteration.
Suite(call, stage, ts, sends, parsed, log) ==
    [raised |-> call.raised, exc |-> call.exc, text |-> call.text,
     stage |-> stage, timestamp |-> ts, sends |-> sends, parsed |-> parsed,
     log |-> log]

Debug(text_) == [level |-> "DEBUG", text |-> text_]
Error(text_) == [level |-> "ERROR", text |-> text_]

\* The try suite of the loop body.
TrySuite(e, ts, http, accepts) ==
    LET response == get_api_answer(e, ts, http) IN
    IF response.raised
    THEN Suite(response, "get_api_answer", ts, << >>, << >>, << >>)
    ELSE
    LET checked == check_response(response.value) IN
    IF checked.raised
    THEN Suite(checked, "check_response", ts, << >>, << >>, << >>)
    ELSE
    LET homeworks == checked.value IN
    IF ~HomeworksTruthy(homeworks)
    THEN Suite(Return(PyNone), "", ts, << >>, << >>, <<Debug(NO_STATUS_CHANGE)>>)
    ELSE
    LET first == FirstItem(homeworks) IN
    IF first.raised
    THEN Suite(first, "homeworks[0]", ts, << >>, << >>, << >>)
    ELSE
    LET message == parse_status(first.value) IN
    IF message.raised
    THEN Suite(message, "parse_status", ts, << >>, <<first.value>>, << >>)
    ELSE
    LET sent == send_message(accepts, message.value) IN
    IF sent.raised
    THEN Suite(sent, "send_message", ts, <<sent>>, <<first.value>>, sent.log)
    ELSE IF PyTruthy(sent.value)
    THEN Suite(Return(PyNone), "", GetCurrentDate(response.value, ts),
               <<sent>>, <<first.value>>, sent.log)
    ELSE Suite(Return(PyNone), "", ts, <<sent>>, <<first.value>>, sent.log)

\* The suite of `except Exception as error`; lem is last_error_message.
ExceptSuite(error, lem, accepts) ==
    LET message == PROGRAM_FAILURE(error.text) IN
    IF <<message>> = lem
    THEN [raised |-> FALSE, exc |-> "", text |-> "", message |-> message,
          last_error_message |-> lem, sends |-> << >>,
          log |-> <<Error(message)>>]
    ELSE
    LET sent == send_message(accepts, message) IN
    [raised |-> sent.raised, exc |-> sent.exc, text |-> sent.text,
     message |-> message,
     last_error_message |-> IF ~sent.raised /\ PyTruthy(sent.value)
                            THEN <<message>> ELSE lem,
     sends |-> <<sent>>,
     log |-> <<Error(message)>> \o sent.log]

\* No iteration has run.
NoIteration == [ran |-> FALSE]

\* Mutation: the try suite assigns the status notification it has sent to
\* last_error_message.
Iteration_records_status(e, ts, lem, http, accepts) ==
    LET try == TrySuite(e, ts, http, accepts)
        caught == try.raised /\ try.exc \in ExceptionClasses
        handler == ExceptSuite(try, lem, accepts)
    IN [ran |-> TRUE,
        http |-> http,
        accepts |-> accepts,
        from_date |-> RequestParams(ts).from_date,
        start_timestamp |-> ts,
        start_last_error |-> lem,
        failed |-> try.raised,
        stage |-> try.stage,
        error |-> IF try.raised THEN <<try.text>> ELSE << >>,
        parsed |-> try.parsed,
        status_sends |-> try.sends,
        failure_message |-> IF caught THEN <<handler.message>> ELSE << >>,
        failure_sends |-> IF caught THEN handler.sends ELSE << >>,
        log |-> IF caught THEN try.log \o handler.log ELSE try.log,
        timestamp |-> try.timestamp,
        last_error_message |-> IF caught THEN handler.last_error_message
                               ELSE IF try.sends # << >>
                               THEN <<try.sends[1].message>> ELSE lem,
        propagated |-> IF caught THEN handler.raised ELSE try.raised]

\* One pass through the body of `while True`, up to time.sleep: the state
\* it leaves and a record of what it did.
Iteration(e, ts, lem, http, accepts) ==
    LET try == TrySuite(e, ts, http, accepts)
        caught == try.raised /\ try.exc \in ExceptionClasses
        handler == ExceptSuite(try, lem, accepts)
    IN [ran |-> TRUE,
        http |-> http,
        accepts |-> accepts,
        from_date |-> RequestParams(ts).from_date,
        start_timestamp |-> ts,
        start_last_error |-> lem,
        failed |-> try.raised,
        stage |-> try.stage,
        error |-> IF try.raised THEN <<try.text>> ELSE << >>,
        parsed |-> try.parsed,
        status_sends |-> try.sends,
        failure_message |-> IF caught THEN <<handler.message>> ELSE << >>,
        failure_sends |-> IF caught THEN handler.sends ELSE << >>,
        log |-> IF caught THEN try.log \o handler.log ELSE try.log,
        timestamp |-> try.timestamp,
        last_error_message |-> IF caught THEN handler.last_error_message ELSE lem,
        propagated |-> IF caught THEN handler.raised ELSE try.raised]

(* ------------------------------- actions ------------------------------- *)

\* The module is imported: the secrets are read from the environment.
Init ==
    /\ env \in Environments
    /\ pc = "main"
    /\ timestamp = 0
    /\ last_error_message = << >>
    /\ critical = << >>
    /\ iter = NoIteration
    /\ verdicts = HOMEWORK_VERDICTS

\* main() up to the loop: check_tokens, then the cursor is set to now.
Startup ==
    /\ pc = "main"
    /\ LET ok == check_tokens(env) IN
       /\ critical' = ok.critical
       /\ IF ~PyTruthy(ok.value)
          THEN /\ pc' = "returned"
               /\ UNCHANGED timestamp
          ELSE /\ pc' = "poll"
               /\ \E now \in 1..MaxDate : timestamp' = now
    /\ last_error_message' = << >>
    /\ UNCHANGED <<env, iter, verdicts>>

\* One iteration of the loop, up to time.sleep.
Poll ==
    /\ pc = "poll"
    /\ \E http \in HttpOutcomes, accepts \in BOOLEAN :
        \E it \in {Iteration(env, timestamp, last_error_message, http, accepts)} :
        /\ iter' = it
        /\ timestamp' = it.timestamp
        /\ last_error_message' = it.last_error_message
        /\ pc' = IF it.propagated THEN "raised" ELSE "sleep"
        /\ verdicts' = IF it.parsed = << >> THEN verdicts
                       ELSE parse_status_verdicts(it.parsed[1])
    /\ UNCHANGED <<env, critical>>

\* time.sleep(RETRY_PERIOD) returns and the loop starts over.
Sleep ==
    /\ pc = "sleep"
    /\ pc' = "poll"
    /\ UNCHANGED <<env, timestamp, last_error_message, critical, iter, verdicts>>

Next == Startup \/ Poll \/ Sleep

Spec == Init /\ [][Next]_vars

TypeOK ==
    /\ env \in Environments
    /\ pc \in {"main", "returned", "poll", "sleep", "raised"}
    /\ timestamp \in 0..MaxDate
    /\ Len(last_error_message) <= 1
    /\ Len(critical) <= 1
    /\ DOMAIN verdicts \subseteq DOMAIN HOMEWORK_VERDICTS

(* ------------------------ vocabulary of the claims --------------------- *)

\* The calls of send_message the iteration it made, in order.
Sends(it) == it.status_sends \o it.failure_sends

\* How many of them the chat accepted.
Delivered(it) == Len(SelectSeq(Sends(it), LAMBDA s : s.accepted))

\* The iteration handed a status notification to send_message.
Notified(it) == it.ran /\ Len(it.status_sends) > 0

\* ... and the chat accepted it.
NotifiedAndDelivered(it) == Notified(it) /\ it.status_sends[1].accepted

\* A send of the iteration failed: bot.send_message raised.
DeliveryFailed(it) == it.ran /\ \E i \in 1..Len(Sends(it)) : ~Sends(it)[i].accepted

\* The response of the iteration carries current_date.
HasCurrentDate(it) == it.ran /\ "current_date" \in it.http.body.keys

\* The fetch of the iteration returned a response that passes
\* check_response, with the homework list hw.
ValidResponse(it, hw) ==
    /\ it.ran
    /\ it.http.transport = "ok"
    /\ it.http.status_code = 200
    /\ it.http.decodable
    /\ it.http.body.type = "dict"
    /\ it.http.body.keys \cap {"error", "code"} = {}
    /\ "homeworks" \in it.http.body.keys
    /\ it.http.body.homeworks.type = "list"
    /\ it.http.body.homeworks.items = hw

\* The secrets of the environment that are unset or empty.
AbsentSecrets == {name \in TOKEN_NAMES : env[name] = PyNone \/ env[name] = ""}

InLoop == {"poll", "sleep"}

(* -------------------------------- claims ------------------------------- *)

\* C1: when an iteration fetched, interpreted the first record and the chat
\* accepted the notification, the cursor equals the response's current_date
\* when the iteration reaches its sleep.
C1_CursorAdvancesOnDelivery ==
    (pc = "sleep" /\ NotifiedAndDelivered(iter) /\ HasCurrentDate(iter))
        => timestamp = iter.http.body.current_date

\* C2: two consecutive iterations that fail with the same failure text,
\* with the chat accepting every message, deliver exactly one failure
\* notification: the second iteration makes no delivery attempt.
C2_FailureDeduplicated ==
    [][(/\ pc = "poll"
        /\ iter.ran
        /\ iter.failure_message # << >>
        /\ iter.accepts
        /\ iter'.failure_message = iter.failure_message
        /\ iter'.accepts)
       => (Delivered(iter) + Delivered(iter') = 1 /\ Sends(iter') = << >>)]_vars

\* C3: send_message evaluates to a true value exactly when the chat
\* accepted the message.
C3_SendMessageReportsOutcome ==
    iter.ran => \A i \in 1..Len(Sends(iter)) :
                    PyTruthy(Sends(iter)[i].value) <=> Sends(iter)[i].accepted

\* C4: once the loop is entered the program never leaves it: at the fetch
\* and at the sleep a step is always possible, every iteration, whatever
\* failed in it, ends at the sleep, and every sleep ends at the next fetch.
C4_LoopNeverExits ==
    /\ [](pc \in InLoop => ENABLED <<Next>>_vars)
    /\ [][(pc = "poll") => (pc' = "sleep")]_vars
    /\ [][(pc = "sleep") => (pc' = "poll")]_vars

\* C4 witness: the loop is about to fetch again after an iteration that
\* failed and whose failure notification the chat refused.
C4_Witness ==
    /\ pc = "poll"
    /\ iter.ran
    /\ iter.failed
    /\ Len(iter.failure_sends) = 1
    /\ ~iter.failure_sends[1].accepted

\* C5: a send the chat refuses does not raise out of send_message, and the
\* iteration it happens in leaves the cursor and the last notified error as
\* they were.
C5_DeliveryFailureContained ==
    DeliveryFailed(iter) =>
        /\ \A i \in 1..Len(Sends(iter)) : ~Sends(iter)[i].raised
        /\ timestamp = iter.start_timestamp
        /\ last_error_message = iter.start_last_error

\* C5 witness: a refused failure notification, after which the iteration
\* reached its sleep.
C5_Witness ==
    /\ pc = "sleep"
    /\ iter.ran
    /\ Len(iter.failure_sends) = 1
    /\ ~iter.failure_sends[1].accepted
    /\ iter.failure_sends[1].value = PyNone

\* C6: with a secret unset or empty, main returns before the loop: no
\* iteration runs, so nothing is fetched and nothing is sent.
C6_NoLoopWithoutSecrets ==
    AbsentSecrets # {} => (pc \in {"main", "returned"} /\ iter = NoIteration)

\* C6 witness: main has returned because of one empty secret.
C6_Witness ==
    /\ pc = "returned"
    /\ env["TELEGRAM_CHAT_ID"] = ""
    /\ env["PRACTICUM_TOKEN"] = "tok"
    /\ env["TELEGRAM_TOKEN"] = "tok"

\* C7: check_tokens returns True exactly when no secret is unset or empty,
\* and otherwise returns False having reported exactly the set of the
\* secrets that are; main branches on that value.
C7_CheckTokensExact ==
    /\ PyTruthy(check_tokens(env).value) <=> AbsentSecrets = {}
    /\ AbsentSecrets # {} =>
          /\ check_tokens(env).value = PyFalse
          /\ check_tokens(env).critical = <<AbsentSecrets>>
    /\ AbsentSecrets = {} => check_tokens(env).critical = << >>
    /\ pc # "main" =>
          /\ critical = IF AbsentSecrets = {} THEN << >> ELSE <<AbsentSecrets>>
          /\ pc = "returned" <=> AbsentSecrets # {}

\* C7 witness: check_tokens has reported one unset and one empty secret and
\* not the present one.
C7_Witness ==
    /\ pc = "returned"
    /\ env["PRACTICUM_TOKEN"] = PyNone
    /\ env["TELEGRAM_TOKEN"] = "tok"
    /\ env["TELEGRAM_CHAT_ID"] = ""
    /\ critical = <<{"PRACTICUM_TOKEN", "TELEGRAM_CHAT_ID"}>>

\* C8: an iteration whose response is valid with an empty homework list
\* calls send_message not at all and leaves the cursor where it was.
C8_EmptyListNoNotification ==
    ValidResponse(iter, << >>) =>
        (Sends(iter) = << >> /\ timestamp = iter.start_timestamp)

\* C8 witness: such an iteration has reached its sleep, with a current_date
\* in the response that differs from the cursor.
C8_Witness ==
    /\ pc = "sleep"
    /\ ValidResponse(iter, << >>)
    /\ HasCurrentDate(iter)
    /\ iter.http.body.current_date # iter.start_timestamp

\* C9: no iteration moves the cursor backward.
C9_CursorNeverBackward ==
    [][(pc = "poll") => (timestamp' >= timestamp)]_vars

\* C9 witness: an iteration delivered a notification for a response whose
\* current_date is smaller than the cursor.
C9_Witness ==
    /\ pc = "sleep"
    /\ NotifiedAndDelivered(iter)
    /\ HasCurrentDate(iter)
    /\ iter.http.body.current_date < iter.start_timestamp

\* C10: an iteration that is not a delivered status notification (it failed
\* in the fetch, the validation or the interpretation, or the chat refused
\* the notification) ends with the cursor it started with.
C10_CursorUnchangedOtherwise ==
    (iter.ran /\ ~NotifiedAndDelivered(iter)) => timestamp = iter.start_timestamp

\* C10 witness: the chat refused a status notification for a response whose
\* current_date differs from the cursor, and the iteration reached its sleep.
C10_Witness ==
    /\ pc = "sleep"
    /\ Notified(iter)
    /\ ~iter.status_sends[1].accepted
    /\ HasCurrentDate(iter)
    /\ iter.http.body.current_date # iter.start_timestamp

\* Everything an iteration did and left, apart from the response it was
\* given.
EffectOf(it) ==
    <<it.failed, it.stage, it.error, it.parsed, it.status_sends,
      it.failure_sends, it.log, it.timestamp, it.last_error_message,
      it.propagated>>

\* The response of http with the homework list cut down to its first record.
FirstOnly(http) ==
    [http EXCEPT !.body.homeworks.items = <<http.body.homeworks.items[1]>>]

\* C11: of a non-empty homework list only the first record is interpreted:
\* parse_status is applied to homeworks[0] and to nothing else, at most one
\* status notification is attempted, its text is the interpretation of
\* homeworks[0], and the iteration does and leaves exactly what it would
\* with the list cut down to its first record.
C11_OnlyFirstRecord ==
    (/\ iter.ran
     /\ ValidResponse(iter, iter.http.body.homeworks.items)
     /\ Len(iter.http.body.homeworks.items) > 0)
    => LET first == iter.http.body.homeworks.items[1] IN
       /\ iter.parsed = <<first>>
       /\ Len(iter.status_sends) <= 1
       /\ parse_status(first).raised =>
             /\ iter.status_sends = << >>
             /\ iter.stage = "parse_status"
             /\ iter.error = <<parse_status(first).text>>
       /\ ~parse_status(first).raised =>
             /\ Len(iter.status_sends) = 1
             /\ iter.status_sends[1].message = parse_status(first).value
       /\ EffectOf(iter) =
             EffectOf(Iteration(env, iter.start_timestamp, iter.start_last_error,
                                FirstOnly(iter.http), iter.accepts))

\* C11 witness: a notification about a well-formed first record was
\* delivered although the second record of the list is malformed.
C11_Witness ==
    /\ pc = "sleep"
    /\ iter.ran
    /\ ValidResponse(iter, <<Homework(HomeworkKeys, "approved"),
                             Homework({"status"}, "unknown")>>)
    /\ NotifiedAndDelivered(iter)

\* C12: last_error_message is assigned only the text of a failure
\* notification the chat accepted in that iteration; a failure notification
\* the chat refused is not recorded, so the next iteration that fails with
\* the same text attempts it again.
C12_RecordedOnlyWhenDelivered ==
    /\ [](last_error_message # << >> =>
            \/ last_error_message = iter.start_last_error
            \/ /\ Len(iter.failure_sends) = 1
               /\ iter.failure_sends[1].accepted
               /\ last_error_message = <<iter.failure_sends[1].message>>)
    /\ [][(last_error_message' # last_error_message)
          => (/\ Len(iter'.failure_sends) = 1
              /\ iter'.failure_sends[1].accepted
              /\ last_error_message' = <<iter'.failure_sends[1].message>>)]_vars
    /\ [][(/\ pc = "poll"
           /\ iter.ran
           /\ Len(iter.failure_sends) = 1
           /\ ~iter.failure_sends[1].accepted
           /\ iter'.failure_message = iter.failure_message)
          => (/\ last_error_message # iter.failure_message
              /\ Len(iter'.failure_sends) = 1
              /\ iter'.failure_sends[1].message = iter.failure_message[1])]_vars

\* C12 witness: the chat refused the failure notification of an iteration
\* that has reached its sleep, and nothing is recorded.
C12_Witness ==
    /\ pc = "sleep"
    /\ iter.ran
    /\ Len(iter.failure_sends) = 1
    /\ ~iter.failure_sends[1].accepted
    /\ iter.start_last_error = << >>
    /\ last_error_message = << >>

\* What the fetch of the iteration gave to main.
Fetched(it) == get_api_answer(env, it.from_date, it.http)

\* The fetch raised the request-failed condition.
RequestFailed(r) ==
    r.raised /\ r.exc = "RuntimeError" /\ r.text =
        "Request error HTTPSConnectionPool: Max retries exceeded URL: "
        \o ENDPOINT \o ",Headers: " \o HEADERS(env) \o ", Params: "
        \o "{'from_date': " \o ToString(iter.from_date) \o "}"

\* The fetch raised the bad-response-status condition for the status code.
BadStatus(r, code) ==
    r.raised /\ r.exc = HTTPRequestError /\ r.text =
        "Bad response status: " \o ToString(code) \o ". URL: "
        \o ENDPOINT \o ",Headers: " \o HEADERS(env) \o ", Params: "
        \o "{'from_date': " \o ToString(iter.from_date) \o "}"

\* The fetch raised the API-reported-error condition for the key and its
\* value.
ApiError(r, key, value) ==
    r.raised /\ r.exc = HTTPRequestError /\ r.text =
        "Error in API response: " \o value \o ", key:" \o key

\* The outcome of the four-way classification, for a response that has
\* arrived with status 200.
ByBody(r, http) ==
    IF "error" \in http.body.keys THEN ApiError(r, "error", http.body.error)
    ELSE IF "code" \in http.body.keys THEN ApiError(r, "code", http.body.code)
    ELSE r = Return(http.body)

\* C13 (as stated): every fetch outcome gives one of four results: request
\* failed, else bad status, else API-reported error, else the decoded body.
C13_FourOutcomes ==
    iter.ran =>
        LET r == Fetched(iter)
            http == iter.http
        IN /\ iter.failed /\ iter.stage = "get_api_answer" <=> r.raised
           /\ r.raised => iter.error = <<r.text>>
           /\ IF http.transport = "failed" THEN RequestFailed(r)
              ELSE IF http.status_code # 200 THEN BadStatus(r, http.status_code)
              ELSE ByBody(r, http)

\* The outcome for a response that has arrived with status 200 and a body
\* that is JSON.
ByDecodedBody(r, body) ==
    IF body.type \notin {"dict", "list", "str"}
    THEN /\ r.raised /\ r.exc = "TypeError"
         /\ r.text = "argument of type '" \o body.type \o "' is not iterable"
    ELSE IF body.type # "dict"
    THEN IF body.keys \cap {"error", "code"} # {}
         THEN /\ r.raised /\ r.exc = "TypeError"
              /\ body.type = "list" =>
                    r.text = "list indices must be integers or slices, not str"
         ELSE r = Return(body)
    ELSE IF "error" \in body.keys THEN ApiError(r, "error", body.error)
    ELSE IF "code" \in body.keys THEN ApiError(r, "code", body.code)
    ELSE r = Return(body)

\* C13 (amended): the four results are those of a response whose body
\* decodes to a mapping.  Between the test of the status and the test of
\* the keys, a body that is not JSON raises the error of response.json();
\* a body that decodes to a number, a boolean or null, or to a list or a
\* string holding `error` or `code`, raises TypeError in the test of the
\* keys; any other list or string is returned unchanged.
C13_Classification ==
    iter.ran =>
        LET r == Fetched(iter)
            http == iter.http
        IN /\ iter.failed /\ iter.stage = "get_api_answer" <=> r.raised
           /\ r.raised => iter.error = <<r.text>>
           /\ IF http.transport = "failed" THEN RequestFailed(r)
              ELSE IF http.status_code # 200 THEN BadStatus(r, http.status_code)
              ELSE IF ~http.decodable
              THEN r.raised /\ r.exc = "JSONDecodeError"
              ELSE ByDecodedBody(r, http.body)

\* C13 witness: a response with status 200 and both keys in its body has
\* been reported under the key `error`.
C13_Witness ==
    /\ pc = "sleep"
    /\ iter.ran
    /\ iter.http.transport = "ok"
    /\ iter.http.status_code = 200
    /\ iter.http.decodable
    /\ iter.http.body.type = "dict"
    /\ {"error", "code"} \subseteq iter.http.body.keys
    /\ iter.error = <<"Error in API response: E, key:error">>

\* The fetch of the iteration returned a decoded response.
FetchReturned(it) ==
    /\ it.ran
    /\ it.http.transport = "ok"
    /\ it.http.status_code = 200
    /\ it.http.decodable
    /\ it.http.body.type \in {"dict", "list", "str"}
    /\ it.http.body.keys \cap {"error", "code"} = {}

\* C14: check_response raises a type mismatch for a response that is not a
\* mapping, else a missing-key failure when `homeworks` is absent, else a
\* type mismatch when its value is not a list, and else returns the list,
\* empty or not; main goes on with that list or handles that failure.
C14_CheckResponse ==
    FetchReturned(iter) =>
        LET response == iter.http.body
            r == check_response(response)
        IN /\ iter.stage = "check_response" <=> r.raised
           /\ r.raised => iter.failed /\ iter.error = <<r.text>>
           /\ IF response.type # "dict"
              THEN /\ r.raised /\ r.exc = "TypeError"
                   /\ r.text = "API response is not a dict, got type:<class '"
                               \o response.type \o "'>"
              ELSE IF "homeworks" \notin response.keys
              THEN /\ r.raised /\ r.exc = "KeyError"
                   /\ r.text = "'No key \"homeworks\" in API response'"
              ELSE IF response.homeworks.type # "list"
              THEN /\ r.raised /\ r.exc = "TypeError"
                   /\ r.text = "homeworks in API response is not alist, got type: <class '"
                               \o response.homeworks.type \o "'>"
              ELSE /\ r = Return(response.homeworks.items)
                   /\ Len(response.homeworks.items) = 0 =>
                         ~iter.failed /\ iter.parsed = << >>
                   /\ Len(response.homeworks.items) > 0 =>
                         iter.parsed = <<response.homeworks.items[1]>>

\* C14 witness: an iteration has failed on a response without the key
\* `homeworks`.
C14_Witness ==
    /\ pc = "sleep"
    /\ FetchReturned(iter)
    /\ iter.http.body.type = "dict"
    /\ "homeworks" \notin iter.http.body.keys
    /\ iter.stage = "check_response"

\* The verdict fixed for each recognized status.
VerdictOf(status) ==
    CASE status = "approved" -> "Reviewed: the reviewer liked everything. Hooray!"
      [] status = "reviewing" -> "Taken for review by the reviewer."
      [] status = "rejected" -> "Reviewed: the reviewer has remarks."

\* How the missing-keys failure enumerates the keys ks.
AbsentKeysText(ks) ==
    IF ks = {"homework_name", "status"} THEN "['homework_name', 'status']"
    ELSE IF ks = {"homework_name"} THEN "['homework_name']"
    ELSE "['status']"

\* parse_status was applied in the last iteration to a JSON object.
ParsedObject == iter.ran /\ Len(iter.parsed) > 0 /\ iter.parsed[1].type = "dict"

\* The outcome iteration `it` saw of its application of parse_status, read
\* off what main did with it: the failure it handled or the text it sent.
FirstOutcome(it) ==
    IF it.stage = "parse_status"
    THEN [raised |-> TRUE, text |-> it.error]
    ELSE [raised |-> FALSE, text |-> <<it.status_sends[1].message>>]

\* parse_status is pure: applied again, in the state the first application
\* left, to the record the last iteration parsed, it gives the outcome the
\* iteration saw, and the verdict table is the one of the import.
ParseStatusPure ==
    (iter.ran /\ Len(iter.parsed) > 0) =>
        LET again == parse_status(iter.parsed[1])
        IN /\ FirstOutcome(iter).raised = again.raised
           /\ FirstOutcome(iter).text = <<IF again.raised THEN again.text ELSE again.value>>
           /\ again.raised => iter.status_sends = << >>
           /\ ~again.raised => Len(iter.status_sends) = 1
           /\ verdicts = HOMEWORK_VERDICTS

\* The outcome r is the missing-keys failure enumerating the keys absent.
MissingKeysFailure(r, absent) ==
    /\ r.raised /\ r.exc = "KeyError"
    /\ r.text = "\"Missing expected keys in API response:" \o AbsentKeysText(absent) \o "\""

\* The outcome r is the unrecognized-value failure naming the status.
UnknownStatusFailure(r, homework) ==
    /\ r.raised /\ r.exc = "ValueError"
    /\ r.text = "Unknown homework status: " \o homework.status

\* The outcome r is the notification of the name and the verdict.
NotificationOf(r, homework) ==
    r = Return("Homework status changed \"" \o homework.homework_name
               \o "\"." \o VerdictOf(homework.status))

\* The status of the record is one of approved, reviewing, rejected.
Recognized(homework) ==
    homework.status_type = "str" /\ homework.status \in {"approved", "reviewing", "rejected"}

\* C15 as stated: for every record, parse_status raises a missing-keys
\* failure enumerating exactly the absent keys among homework_name and
\* status; with both present it raises an unrecognized-value failure naming
\* a status that is not approved, reviewing or rejected; otherwise it
\* returns the text built of the name and the verdict of the status; and it
\* is pure.  A status that is a JSON list or object refutes the second
\* case: the membership test raises TypeError.
C15_ParseStatus ==
    /\ ParseStatusPure
    /\ ParsedObject =>
        LET homework == iter.parsed[1]
            absent == {"homework_name", "status"} \ homework.keys
            r == parse_status(homework)
        IN IF absent # {} THEN MissingKeysFailure(r, absent)
           ELSE IF ~Recognized(homework) THEN UnknownStatusFailure(r, homework)
           ELSE NotificationOf(r, homework)

\* C15, amended: for every record that is a JSON object, parse_status raises
\* a missing-keys failure enumerating exactly the absent keys among
\* homework_name and status; with both present it raises TypeError
\* (unhashable type) when the status is a JSON list or object, and an
\* unrecognized-value failure naming the status when the status is any
\* other value that is not approved, reviewing or rejected; otherwise it
\* returns the text built of the name and the verdict of the status.  It is
\* pure: applied twice to the same record it gives the same outcome, and it
\* changes no state, the verdict table included.
C15_ParseStatusHashable ==
    /\ ParseStatusPure
    /\ ParsedObject =>
        LET homework == iter.parsed[1]
            absent == {"homework_name", "status"} \ homework.keys
            r == parse_status(homework)
        IN IF absent # {} THEN MissingKeysFailure(r, absent)
           ELSE IF homework.status_type \in {"list", "dict"}
           THEN /\ r.raised /\ r.exc = "TypeError"
                /\ r.text = "unhashable type: '" \o homework.status_type \o "'"
           ELSE IF ~Recognized(homework) THEN UnknownStatusFailure(r, homework)
           ELSE NotificationOf(r, homework)

\* C15 witness: an iteration has failed on a first record whose status is a
\* list, with the table as it was.
C15_Witness ==
    /\ pc = "sleep"
    /\ iter.ran
    /\ iter.parsed = <<HomeworkOfStatus("list", "['approved']")>>
    /\ iter.stage = "parse_status"
    /\ iter.error = <<"unhashable type: 'list'">>
    /\ verdicts = HOMEWORK_VERDICTS

\* The fetch of the iteration failed: no response, a bad status, a body
\* that is not JSON, a body the test of the keys cannot be applied to, or
\* an error reported by the API.
FetchFailed(it) == it.ran /\ ~FetchReturned(it)

\* C16: an iteration whose fetch failed applies neither check_response nor
\* parse_status, attempts no status notification, and hands to the chat at
\* most the failure text of that fetch error.
C16_FetchFailureSkipsToHandler ==
    FetchFailed(iter) =>
        /\ iter.failed
        /\ iter.stage = "get_api_answer"
        /\ iter.parsed = << >>
        /\ iter.status_sends = << >>
        /\ Len(iter.error) = 1
        /\ iter.failure_message = <<"Program failure: " \o iter.error[1]>>
        /\ \A i \in 1..Len(Sends(iter)) :
              Sends(iter)[i].message = "Program failure: " \o iter.error[1]

\* C16 witness: the failure text of a bad status, with a body that would
\* have been a notification, has been delivered.
C16_Witness ==
    /\ pc = "sleep"
    /\ iter.ran
    /\ iter.http = Http("ok", 500, TRUE, SomeBody)
    /\ Len(iter.failure_sends) = 1
    /\ iter.failure_sends[1].accepted

\* C17: an iteration calls send_message at most once: never for a status
\* notification and a failure notification both, never twice for one
\* message.
C17_AtMostOneSend ==
    iter.ran =>
        /\ Len(iter.status_sends) + Len(iter.failure_sends) <= 1
        /\ iter.status_sends = << >> \/ iter.failure_sends = << >>

\* C17 witness: the chat refused a status notification and the iteration
\* reached its sleep without a failure notification.
C17_Witness ==
    /\ pc = "sleep"
    /\ Notified(iter)
    /\ ~iter.status_sends[1].accepted
    /\ iter.failure_sends = << >>

\* The iteration was a successful one: its status notification was
\* delivered, or its response was valid with an empty homework list.
Successful(it) == NotifiedAndDelivered(it) \/ ValidResponse(it, << >>)

\* C18: a successful iteration leaves last_error_message as it found it;
\* only an iteration that went through the failure handling changes it.
C18_SuccessKeepsLastError ==
    /\ [](Successful(iter) =>
            ~iter.failed /\ last_error_message = iter.start_last_error)
    /\ [][(pc = "poll" /\ last_error_message' # last_error_message)
          => (iter'.failed /\ iter'.failure_message # << >>)]_vars

\* C18 witness: a status notification has been delivered and the iteration
\* has reached its sleep.
C18_Witness ==
    /\ pc = "sleep"
    /\ NotifiedAndDelivered(iter)
    /\ last_error_message = iter.start_last_error

\* C19: every request carries the cursor of the moment as from_date: the
\* first one the timestamp taken at startup, each later one the cursor the
\* iteration before it left.
C19_RequestCarriesCursor ==
    /\ [][(pc = "poll")
          => (/\ iter'.from_date = timestamp
              /\ iter.ran => iter'.from_date = iter.timestamp)]_vars
    /\ [](iter.ran => iter.from_date = iter.start_timestamp)

\* C19 witness: a request that reached the API has been made with the
\* cursor, 2, as from_date.
C19_Witness ==
    /\ pc = "sleep"
    /\ iter.ran
    /\ iter.http.transport = "ok"
    /\ iter.from_date = 2
    /\ iter.start_timestamp = 2

====
